---- MODULE Spec2Model ----
(***************************************************************************)
(* Host-side driver of the FPGA counter module (src/host/counter.py,       *)
(* class Counter): channel LUT builder, stream decoder and the register    *)
(* writes of the facade.                                                   *)
(*                                                                         *)
(* Representation choices.                                                 *)
(*  - A raw 32-bit word (np.uint32) is the record [tag, low]: tag is bit   *)
(*    31 and low is bits 30..0, so the word's value is tag * 2^31 + low.   *)
(*    (TLC integers are 32-bit signed; 0x80000000 itself is not a TLC      *)
(*    number.)  `val & 0x80000000` is tag = 1, `val & 0x7FFFFFFF` is low,  *)
(*    and `val != 0` is tag # 0 or low # 0.                                *)
(*  - np.nan is the scalar NaN (-1); real counts are >= 0.                 *)
(*  - data_array (shape K x capture_size) is a sequence of K rows, one per *)
(*    channel, each a sequence of capture_size scalars.                    *)
(*  - A Python dict is the sequence of its items in insertion order, each  *)
(*    item [key, type, vals]: type "int" (vals = <<v>>), "list" or "other".*)
(*  - Python list indices are 0-based, TLA+ sequences 1-based: list[i] is  *)
(*    seq[i + 1].                                                          *)
(***************************************************************************)
EXTENDS Integers, Sequences, FiniteSets, TLC

VARIABLES
    capture_size,                \* self.capture_size
    number_of_channels,          \* self.number_of_channels (NUM_OF_CHANNELS register)
    lut_channels_depth,          \* self.lut_channels_depth (CHANNEL_LUT_DEPTH register)
    read_length,                 \* self.read_length
    max_burst_size,              \* self.wb.MAX_BURST_SIZE
    number_of_desired_channels,  \* self.number_of_desired_channels
    data_array,                  \* self.data_array
    remaining_counters_array,    \* self.remaining_counters_array
    lutReg,                      \* the words held by the SET_CHANNELS register block
    lutWritten,                  \* the assignment whose LUT was burst-written last, if any
    winLsbReg,                   \* the word held by the WINDOW_SIZE_LSB register
    winMsbReg,                   \* the word held by the WINDOW_SIZE_MSB register
    lastOp,                      \* the method that ran last
    lastErr,                     \* the exception it raised, or "none"
    lastWrites,                  \* the bus writes it issued, in order
    lastReads,                   \* the bus reads it issued, in order
    lastBurst,                   \* the words its burst reads returned (read_data)
    lastChannels,                \* its `channels` argument (set_lut_channels)
    lastRet,                     \* its return value (get_lut_channels, get_window_size)
    prev_K,                      \* number_of_desired_channels before it ran
    prev_data_array,             \* data_array before it ran
    prev_remaining,              \* remaining_counters_array before it ran
    since_reset,                 \* the words read since the last reset, when logged
    argChannels,                 \* the assignment the caller of the LUT builder passes
    argWindow,                   \* the window size the caller of set_window_size passes
    calls                        \* number of method calls since construction

vars == <<capture_size, number_of_channels, lut_channels_depth, read_length,
          max_burst_size, number_of_desired_channels, data_array,
          remaining_counters_array, lutReg, lutWritten, winLsbReg, winMsbReg,
          lastOp, lastErr, lastWrites, lastReads, lastBurst, lastChannels,
          lastRet, prev_K, prev_data_array, prev_remaining, since_reset,
          argChannels, argWindow, calls>>

\* What the methods never assign after construction, and the callers' arguments.
hwVars == <<capture_size, number_of_channels, lut_channels_depth, read_length,
            max_burst_size, argChannels, argWindow>>

\* The window registers.
winVars == <<winLsbReg, winMsbReg>>

(***************************************************************************)
(* Register map                                                            *)
(***************************************************************************)
REG_MODULE == 0       \* Reg.MODULE (MODULE is a reserved word)
FIFO_DEPTH == 4
NUM_OF_CHANNELS == 8
CHANNEL_LUT_DEPTH == 12
SET_CHANNELS == 16
WINDOW_SIZE_LSB == 24
WINDOW_SIZE_MSB == 28
CONFIG == 32
READ_DATA == 36
RESET_FPGA_MODULE == 40
NUM_DESIRED_CHANNEL == 44

(***************************************************************************)
(* Bounds of the model                                                     *)
(***************************************************************************)
MaxCaptureSize == 4     \* largest capture_size of the decoder runs
MaxCalls == 3           \* method calls after construction
ReadLength == 4         \* self.read_length: words per read_data call
GapLen == 3             \* the value of the gap words of the generic bursts
NumChannels == 3        \* value of the NUM_OF_CHANNELS register
MaxListLen == 2         \* longest value list of a generated assignment

NaN == -1

(***************************************************************************)
(* Raw words                                                               *)
(***************************************************************************)
Word(tag, low) == [tag |-> tag, low |-> low]
ZeroWord == Word(0, 0)
GapWord(n) == Word(0, n)        \* bit 31 clear: a gap of n scalars
ValidWord(n) == Word(1, n)      \* bit 31 set: 0x80000000 + n

RECURSIVE SeqsOf(_, _)
SeqsOf(S, n) ==
    IF n = 0 THEN {<<>>}
    ELSE {Append(q, x) : q \in SeqsOf(S, n - 1), x \in S}

\* The words of the generated bursts: one gap word and one valid-tagged word.
DataWords == {GapWord(GapLen), ValidWord(1)}

\* A FIFO read: the words available, then dummy words up to read_length.
Pad(q) == q \o [i \in 1..(ReadLength - Len(q)) |-> ZeroWord]
PaddedBursts == {Pad(q) : q \in UNION {SeqsOf(DataWords, n) : n \in 0..ReadLength}}

\* The bursts of the documented decode examples, with dummy words between and
\* after the data words.
SampleBursts ==
    { <<ValidWord(1), ValidWord(2), ValidWord(3), ValidWord(4)>>,
      <<GapWord(3), ValidWord(5), ZeroWord, ZeroWord>>,
      <<ZeroWord, GapWord(3), ZeroWord, ValidWord(5)>>,
      <<GapWord(3), ZeroWord, ValidWord(1), ValidWord(2)>>,
      <<GapWord(9), ValidWord(7), ZeroWord, ZeroWord>>,
      <<ValidWord(0), ValidWord(6), ZeroWord, ZeroWord>> }

Bursts == PaddedBursts \cup {b \in SampleBursts : Len(b) = ReadLength}

(***************************************************************************)
(* Stream decoder: the pure steps of read_data                             *)
(***************************************************************************)
\* Mutant: the filter applied to the low 31 bits, (word & 0x7FFFFFFF) != 0.
FilterZeros_LowBits(burst) == SelectSeq(burst, LAMBDA val : val.low # 0)

\* burst_read_data[burst_read_data != 0]
FilterZeros(burst) == SelectSeq(burst, LAMBDA val : val.tag # 0 \/ val.low # 0)

\* Mutant: a gap word counted in rows (K scalars each) instead of scalars.
ExpandWord_GapRows(val) ==
    IF val.tag = 0
    THEN [i \in 1..(val.low * number_of_desired_channels) |-> NaN]
    ELSE <<val.low>>

\* The scalars one non-zero word appends to concat_data.
ExpandWord(val) ==
    IF val.tag = 0
    THEN [i \in 1..val.low |-> NaN]     \* np.full(int(val), np.nan)
    ELSE <<val.low>>                    \* val & 0x7FFFFFFF

\* for val in burst_read_data: ...
RECURSIVE ExpandBurst(_, _)
ExpandBurst(concat_data, words) ==
    IF words = <<>> THEN concat_data
    ELSE ExpandBurst(concat_data \o ExpandWord(Head(words)), Tail(words))

\* Mutant: the working sequence started empty, the carried scalars forgotten.
StartConcat_Fresh(remaining) == <<>>

\* concat_data = self.remaining_counters_array
StartConcat(remaining) == remaining

\* seq[-n:] of Python, for 0 <= n
LastN(seq, n) ==
    IF n = 0 \/ n >= Len(seq) THEN seq
    ELSE SubSeq(seq, Len(seq) - n + 1, Len(seq))

\* Mutant: the pending tail taken from the front, concat_data[:len - added_data_len].
RemainingAfter_Front(concat_data, added_data_len) ==
    SubSeq(concat_data, 1, Len(concat_data) - added_data_len)

\* concat_data[added_data_len:]
RemainingAfter(concat_data, added_data_len) ==
    SubSeq(concat_data, added_data_len + 1, Len(concat_data))

\* if added_arrays_len > self.capture_size: ... (the clamped row count)
ClampRows(added_arrays_len, cap) ==
    IF added_arrays_len > cap THEN cap ELSE added_arrays_len

\* Mutant: on overflow the oldest rows kept, added_data[:cap * K].
TruncateAdded_Oldest(added_data, added_arrays_len, cap, K) ==
    IF added_arrays_len > cap THEN SubSeq(added_data, 1, cap * K) ELSE added_data

\* if added_arrays_len > self.capture_size: added_data = added_data[-cap * K:]
TruncateAdded(added_data, added_arrays_len, cap, K) ==
    IF added_arrays_len > cap THEN LastN(added_data, cap * K) ELSE added_data

\* Mutant: the reshape without the transpose, np.reshape(added_data, (K, rows)).
ReshapeT_NoTranspose(added_data, rows, K) ==
    [c \in 1..K |-> [j \in 1..rows |-> added_data[(c - 1) * rows + j]]]

\* np.reshape(added_data, (rows, K)).T : K rows of `rows` scalars
ReshapeT(added_data, rows, K) ==
    [c \in 1..K |-> [j \in 1..rows |-> added_data[(j - 1) * K + c]]]

\* Mutant: a call that completes no row still shifts in one missing column.
SlideAppend_PadEmpty(matrix, rows, new) ==
    [c \in 1..Len(matrix) |->
        IF rows = 0 /\ Len(matrix[c]) > 0
        THEN Tail(matrix[c]) \o <<NaN>>
        ELSE SubSeq(matrix[c], rows + 1, Len(matrix[c])) \o new[c]]

\* np.concatenate((self.data_array[:, rows:], new), axis=1)
SlideAppend(matrix, rows, new) ==
    [c \in 1..Len(matrix) |->
        SubSeq(matrix[c], rows + 1, Len(matrix[c])) \o new[c]]

\* np.full((K, cap), np.nan)
FullNaN(K, cap) == [c \in 1..K |-> [j \in 1..cap |-> NaN]]

(***************************************************************************)
(* Bus accesses                                                            *)
(***************************************************************************)
\* self.wb.write(base_address + reg, value)
WbWrite(reg, value) == [op |-> "write", reg |-> reg, data |-> <<value>>]
\* self.wb.burst_write(base_address + reg, data, 0)
WbBurstWrite(reg, data) == [op |-> "burst_write", reg |-> reg, data |-> data]
\* self.wb.read(base_address + reg), `value` being the word it returned
WbRead(reg, value) ==
    [op |-> "read", reg |-> reg, count |-> 1, data |-> <<value>>]
\* self.wb.burst_read(base_address + reg, count, 0), `data` being the words it
\* returned
WbBurstRead(reg, count, data) ==
    [op |-> "burst_read", reg |-> reg, count |-> count, data |-> data]

(***************************************************************************)
(* Burst chunking: the read loop of read_data                              *)
(***************************************************************************)
\* self.read_length, from the FIFO depth and the transport's burst limit
ReadLengthOf(fifo_depth, max_burst) ==
    IF fifo_depth <= max_burst THEN fifo_depth
    ELSE (fifo_depth \div max_burst) * max_burst

\* range(0, self.read_length, self.wb.MAX_BURST_SIZE): the values of
\* updated_bins, in order
ChunkStarts(length, max_burst) ==
    [i \in 1..(IF length <= 0 THEN 0 ELSE (length - 1) \div max_burst + 1) |->
        (i - 1) * max_burst]

\* chunk_size = min(self.wb.MAX_BURST_SIZE, self.read_length - updated_bins)
ChunkSize(length, max_burst, updated_bins) ==
    IF max_burst < length - updated_bins THEN max_burst
    ELSE length - updated_bins

\* Mutant: every sub-burst stored at the start of burst_read_data.
PlaceChunk_AtZero(burst_read_data, updated_bins, rd_data) ==
    [n \in 1..Len(burst_read_data) |->
        IF n <= Len(rd_data) THEN rd_data[n] ELSE burst_read_data[n]]

\* burst_read_data[updated_bins:updated_bins + chunk_size] = rd_data
PlaceChunk(burst_read_data, updated_bins, rd_data) ==
    [n \in 1..Len(burst_read_data) |->
        IF updated_bins < n /\ n <= updated_bins + Len(rd_data)
        THEN rd_data[n - updated_bins]
        ELSE burst_read_data[n]]

\* The loop over updated_bins. `io` holds burst_read_data, the burst reads
\* issued so far and the words the FIFO has not handed out yet: a burst read
\* of chunk_size words returns the next chunk_size words of the FIFO.
RECURSIVE ReadChunks(_, _, _, _)
ReadChunks(starts, io, length, max_burst) ==
    IF starts = <<>> THEN io
    ELSE LET updated_bins == Head(starts)
             chunk_size == ChunkSize(length, max_burst, updated_bins)
             rd_data == SubSeq(io.fifo, 1, chunk_size)
         IN  ReadChunks(Tail(starts),
                 [data |-> PlaceChunk(io.data, updated_bins, rd_data),
                  reads |-> Append(io.reads,
                                   WbBurstRead(READ_DATA, chunk_size, rd_data)),
                  fifo |-> SubSeq(io.fifo, chunk_size + 1, Len(io.fifo))],
                 length, max_burst)

\* burst_read_data = np.zeros(self.read_length), then the loop
ReadBursts(fifo, length, max_burst) ==
    ReadChunks(ChunkStarts(length, max_burst),
               [data |-> [n \in 1..length |-> ZeroWord], reads |-> <<>>,
                fifo |-> fifo],
               length, max_burst)

(***************************************************************************)
(* Window size: Python integers as little-endian sequences of 16-bit limbs *)
(***************************************************************************)
RECURSIVE BitAnd(_, _)
BitAnd(a, b) ==
    IF a = 0 \/ b = 0 THEN 0
    ELSE (a % 2) * (b % 2) + 2 * BitAnd(a \div 2, b \div 2)

\* x & y
BigAnd(x, y) == [i \in DOMAIN x |-> BitAnd(x[i], y[i])]

\* Mutant: the upper word taken 16 bits up instead of 32.
BigShr32_By16(x) == [i \in DOMAIN x |-> IF i + 1 \in DOMAIN x THEN x[i + 1] ELSE 0]

\* x >> 32
BigShr32(x) == [i \in DOMAIN x |-> IF i + 2 \in DOMAIN x THEN x[i + 2] ELSE 0]

\* x << 32, for x < 2^32
BigShl32(x) == [i \in DOMAIN x |-> IF i > 2 THEN x[i - 2] ELSE 0]

RECURSIVE BigCarry(_, _, _)
BigCarry(x, y, i) ==
    IF i = 0 THEN 0 ELSE (x[i] + y[i] + BigCarry(x, y, i - 1)) \div 65536

\* x + y
BigAdd(x, y) ==
    [i \in DOMAIN x |-> (x[i] + y[i] + BigCarry(x, y, i - 1)) % 65536]

\* lsb_mask = 0xFFFFFFFF
lsb_mask == <<65535, 65535, 0, 0, 0>>

\* The default of set_window_size, 3000000000 = 45776 * 2^16 + 24064
DefaultWindow == <<24064, 45776, 0, 0, 0>>

BigZero == <<0, 0, 0, 0, 0>>

\* The window sizes of the window runs: below 2^64 when the top limb is 0.
LimbValues == {0, 1, 24064, 45776, 65535}
WindowSizes ==
    {<<a, b, c, d, e>> : a \in LimbValues, b \in LimbValues, c \in LimbValues,
                         d \in LimbValues, e \in {0, 1}}

(***************************************************************************)
(* Construction: the bus as Counter.__init__ finds it                      *)
(***************************************************************************)
\* b'cntr'
ModuleTag == <<99, 110, 116, 114>>

\* int.to_bytes(4, 'big') of a 32-bit word
ToBytesBig(word) ==
    <<word \div 16777216, (word \div 65536) % 256, (word \div 256) % 256,
      word % 256>>

\* The register word whose big-endian bytes are b.
FromBytesBig(b) == ((b[1] * 256 + b[2]) * 256 + b[3]) * 256 + b[4]

\* A transport: its burst limit and the words its registers answer with.
Bus(module, fifo_depth, channels, lut_depth, max_burst) ==
    [module |-> module, fifo_depth |-> fifo_depth, channels |-> channels,
     lut_depth |-> lut_depth, max_burst |-> max_burst]

\* Mutant: the geometry registers read before the module tag is checked.
InitReads_CheckLate(wb) ==
    <<WbRead(REG_MODULE, wb.module), WbRead(FIFO_DEPTH, wb.fifo_depth),
      WbRead(NUM_OF_CHANNELS, wb.channels),
      WbRead(CHANNEL_LUT_DEPTH, wb.lut_depth)>>

\* The register reads of __init__: the assert on the module tag ends it
\* before the geometry registers are read.
InitReads(wb) ==
    IF ToBytesBig(wb.module) # ModuleTag
    THEN <<WbRead(REG_MODULE, wb.module)>>
    ELSE <<WbRead(REG_MODULE, wb.module), WbRead(FIFO_DEPTH, wb.fifo_depth),
           WbRead(NUM_OF_CHANNELS, wb.channels),
           WbRead(CHANNEL_LUT_DEPTH, wb.lut_depth)>>

(***************************************************************************)
(* Channel assignments (the `channels` argument of set_lut_channels)       *)
(***************************************************************************)
IntItem(k, v) == [key |-> k, type |-> "int", vals |-> <<v>>]
ListItem(k, vs) == [key |-> k, type |-> "list", vals |-> vs]
OtherItem(k) == [key |-> k, type |-> "other", vals |-> <<>>]

Given(d) == [given |-> TRUE, dict |-> d]
NoneArg == [given |-> FALSE, dict |-> <<>>]      \* channels=None

\* The assignments of the decoder runs: accepted ones with K = 0, 1, 2, 3 and
\* rejected ones (colliding slot 5, key out of range, unsupported value type).
DecoderChannels ==
    { NoneArg,
      Given(<<>>),
      Given(<<IntItem(0, 1)>>),
      Given(<<IntItem(0, 1), ListItem(1, <<2, 3>>)>>),
      Given(<<IntItem(0, 5), IntItem(1, 5)>>),
      Given(<<IntItem(1, 1)>>),
      Given(<<OtherItem(0)>>) }

\* The assignments of the LUT builder runs.
PhysValues == {-5, 5, 6, 70}
LutDepths == {8, 64}
ItemValues(k) ==
    {IntItem(k, v) : v \in PhysValues} \cup
    {ListItem(k, vs) : vs \in UNION {SeqsOf(PhysValues, n) : n \in 0..MaxListLen}} \cup
    {OtherItem(k)}
LutChannels ==
    {NoneArg, Given(<<>>)} \cup
    {Given(<<a>>) : a \in ItemValues(0) \cup ItemValues(1) \cup ItemValues(-1)} \cup
    {Given(<<a, b>>) : a \in ItemValues(0), b \in ItemValues(1)} \cup
    {Given(<<b, a>>) : a \in ItemValues(0), b \in ItemValues(1)} \cup
    {Given(<<a, IntItem(2, 5)>>) : a \in ItemValues(0)} \cup
    {Given(<<a, IntItem(NumChannels, 5)>>) : a \in ItemValues(0)} \cup
    { Given(<<ListItem(1, <<1, 2, 3>>), ListItem(0, <<6, 7>>),
              IntItem(2, -5), ListItem(3, <<-8, 8>>)>>),
      Given(<<IntItem(0, 1), ListItem(1, <<2, 3>>), ListItem(2, <<-4, 4>>)>>) }

(***************************************************************************)
(* Channel LUT builder                                                     *)
(***************************************************************************)
\* val & 0b111111 on a Python int (two's complement of unbounded width): the
\* residue of val modulo 64, in 0..63, for negative val too.
Mask6(val) == val % 64

Ok(lut) == [err |-> "none", lut |-> lut]
Raise(e, lut) == [err |-> e, lut |-> lut]

\* Mutant: no repeated-value assert, a slot assigned twice keeps the later key.
process_value_Overwrite(result_list, channel_key, val) ==
    LET slot == Mask6(val) IN
    IF slot >= Len(result_list)
      THEN Raise("IndexError", result_list)
    ELSE Ok([result_list EXCEPT ![slot + 1] = channel_key])

\* Mutant: the slot index wrapped into the LUT, result_list[slot % len].
process_value_WrapDepth(result_list, channel_key, val) ==
    LET slot == Mask6(val) % Len(result_list) IN
    IF result_list[slot + 1] # number_of_channels
      THEN Raise("AssertionError", result_list)
    ELSE Ok([result_list EXCEPT ![slot + 1] = channel_key])

\* Mutant: the physical value stored in the slot instead of the channel key.
process_value_StoreValue(result_list, channel_key, val) ==
    LET slot == Mask6(val) IN
    IF slot >= Len(result_list)
      THEN Raise("IndexError", result_list)
    ELSE IF result_list[slot + 1] # number_of_channels
      THEN Raise("AssertionError", result_list)
    ELSE Ok([result_list EXCEPT ![slot + 1] = val])

\* process_value(val) of _assign_channel_indices, on the local result_list.
process_value(result_list, channel_key, val) ==
    LET slot == Mask6(val) IN
    IF slot >= Len(result_list)
      THEN Raise("IndexError", result_list)           \* result_list[slot]
    ELSE IF result_list[slot + 1] # number_of_channels
      THEN Raise("AssertionError", result_list)       \* repeated value
    ELSE Ok([result_list EXCEPT ![slot + 1] = channel_key])

\* for val in values: process_value(val)
RECURSIVE process_values(_, _, _)
process_values(st, channel_key, vals) ==
    IF st.err # "none" \/ vals = <<>> THEN st
    ELSE process_values(process_value(st.lut, channel_key, Head(vals)),
                        channel_key, Tail(vals))

\* Mutant: no assert on the key against self.number_of_channels.
process_item_NoKeyAssert(st, item) ==
    IF item.type = "int" THEN process_value(st.lut, item.key, item.vals[1])
    ELSE IF item.type = "list" THEN process_values(st, item.key, item.vals)
    ELSE Raise("ValueError", st.lut)

\* One iteration of `for channel_key, values in input_dict.items()`.
process_item(st, item) ==
    IF ~(0 <= item.key /\ item.key < number_of_channels)
      THEN Raise("AssertionError", st.lut)
    ELSE IF item.type = "int" THEN process_value(st.lut, item.key, item.vals[1])
    ELSE IF item.type = "list" THEN process_values(st, item.key, item.vals)
    ELSE Raise("ValueError", st.lut)

RECURSIVE process_items(_, _)
process_items(st, items) ==
    IF st.err # "none" \/ items = <<>> THEN st
    ELSE process_items(process_item(st, Head(items)), Tail(items))

\* all(0 <= key < len(input_dict) for key in input_dict)
KeysInRange(input_dict) ==
    \A i \in 1..Len(input_dict) :
        0 <= input_dict[i].key /\ input_dict[i].key < Len(input_dict)

\* _assign_channel_indices: [err, lut, n] for (result_list, len(input_dict)).
assign_channel_indices(input_dict) ==
    LET result_list == [i \in 1..lut_channels_depth |-> number_of_channels]
        st == IF ~KeysInRange(input_dict) THEN Raise("ValueError", result_list)
              ELSE process_items(Ok(result_list), input_dict)
    IN  [err |-> st.err, lut |-> st.lut, n |-> Len(input_dict)]

\* channels = {i: i + 1 for i in range(self.number_of_channels)}
DefaultChannels == [i \in 1..number_of_channels |-> IntItem(i - 1, i)]

RECURSIVE SortedSeq(_)
SortedSeq(S) ==
    IF S = {} THEN <<>>
    ELSE LET m == CHOOSE x \in S : \A y \in S : x <= y
         IN  <<m>> \o SortedSeq(S \ {m})

\* Mutant: the sentinel taken for a channel, value <= self.number_of_channels.
list_to_dict_Inclusive(input_list) ==
    LET keys == {input_list[i] : i \in 1..Len(input_list)}
        kept == SortedSeq({v \in keys : v <= number_of_channels})
    IN  [n \in 1..Len(kept) |->
            ListItem(kept[n],
                     SortedSeq({i \in 0..(Len(input_list) - 1) :
                                    input_list[i + 1] = kept[n]}))]

\* list_to_dict of get_lut_channels: the items sorted by key, each with the
\* 0-based indices of its slots in ascending order.
list_to_dict(input_list) ==
    LET keys == {input_list[i] : i \in 1..Len(input_list)}
        kept == SortedSeq({v \in keys : v < number_of_channels})
    IN  [n \in 1..Len(kept) |->
            ListItem(kept[n],
                     SortedSeq({i \in 0..(Len(input_list) - 1) :
                                    input_list[i + 1] = kept[n]}))]

(***************************************************************************)
(* Methods of Counter                                                      *)
(***************************************************************************)
\* reset_FPGA_module: the strobe write, then the fresh decoder state.
ResetWrites == <<WbWrite(RESET_FPGA_MODULE, 1)>>

\* Counter(wb, capture_size): __init__ on the transport wb.
Counter(wb, size) ==
    /\ lastOp = "none"
    /\ lastOp' = "__init__"
    /\ lastReads' = InitReads(wb)
    /\ IF ToBytesBig(wb.module) # ModuleTag
       THEN \* the assert raises: no object, nothing after the MODULE read
            /\ lastErr' = "AssertionError"
            /\ lastWrites' = <<>>
            /\ UNCHANGED <<capture_size, number_of_channels, lut_channels_depth,
                           read_length, max_burst_size,
                           number_of_desired_channels, data_array,
                           remaining_counters_array, lutReg, prev_K,
                           prev_data_array, prev_remaining>>
       ELSE /\ lastErr' = "none"
            /\ capture_size' = size
            /\ number_of_channels' = wb.channels
            /\ lut_channels_depth' = wb.lut_depth
            /\ read_length' = ReadLengthOf(wb.fifo_depth, wb.max_burst)
            /\ max_burst_size' = wb.max_burst
            /\ number_of_desired_channels' = 1
            /\ prev_K' = 1
            /\ prev_data_array' = FullNaN(1, size)
            /\ prev_remaining' = <<>>
            \* self.reset_FPGA_module()
            /\ lastWrites' = ResetWrites
            /\ data_array' = FullNaN(1, size)
            /\ remaining_counters_array' = <<>>
            /\ lutReg' = [i \in 1..wb.lut_depth |-> wb.channels]
    /\ UNCHANGED <<lutWritten, winVars, lastBurst, lastChannels, lastRet,
                   since_reset, argChannels, argWindow, calls>>

\* What every call records about itself.
Called(op, err, writes) ==
    /\ calls < MaxCalls
    /\ calls' = calls + 1
    /\ lastOp' = op
    /\ lastErr' = err
    /\ lastWrites' = writes
    /\ prev_K' = number_of_desired_channels
    /\ prev_data_array' = data_array
    /\ prev_remaining' = remaining_counters_array
    /\ UNCHANGED hwVars

\* Mutant: the reset keeping the carried scalars.
ResetRemaining_Keep == remaining_counters_array

\* self.remaining_counters_array = []
ResetRemaining == <<>>

reset_FPGA_module ==
    /\ Called("reset_FPGA_module", "none", ResetWrites)
    /\ lastReads' = <<>>
    /\ data_array' = FullNaN(number_of_desired_channels, capture_size)
    /\ remaining_counters_array' = ResetRemaining
    /\ since_reset' = <<>>
    /\ UNCHANGED <<number_of_desired_channels, lutReg, lutWritten, winVars,
                   lastBurst, lastChannels, lastRet>>

\* Mutant: the CONFIG register cleared instead of set.
StartWrites_Zero == <<WbWrite(CONFIG, 0)>>

\* self.wb.write(base_address + CONFIG, 1)
StartWrites == <<WbWrite(CONFIG, 1)>>

start_measurement ==
    /\ Called("start_measurement", "none", StartWrites)
    /\ lastReads' = <<>>
    /\ UNCHANGED <<number_of_desired_channels, data_array,
                   remaining_counters_array, lutReg, lutWritten, winVars,
                   lastBurst, lastChannels, lastRet, since_reset>>

\* Mutant: the module reset before the assignment is validated.
SetLutWrites_ResetFirst(res) ==
    IF res.err # "none" THEN ResetWrites
    ELSE ResetWrites \o
         <<WbWrite(NUM_DESIRED_CHANNEL, res.n),
           WbBurstWrite(SET_CHANNELS, res.lut)>>

\* Mutant: the desired channel count written before the reset strobe.
SetLutWrites_CountFirst(res) ==
    IF res.err # "none" THEN <<>>
    ELSE <<WbWrite(NUM_DESIRED_CHANNEL, res.n)>> \o ResetWrites \o
         <<WbBurstWrite(SET_CHANNELS, res.lut)>>

\* The bus writes of set_lut_channels, given the outcome of
\* _assign_channel_indices: none when it raised (the exception leaves
\* set_lut_channels at its first statement), else reset strobe, desired
\* channel count, LUT burst.
SetLutWrites(res) ==
    IF res.err # "none" THEN <<>>
    ELSE ResetWrites \o
         <<WbWrite(NUM_DESIRED_CHANNEL, res.n),
           WbBurstWrite(SET_CHANNELS, res.lut)>>

\* self.number_of_desired_channels after set_lut_channels: the tuple
\* assignment happens only when _assign_channel_indices returned.
SetLutK(res) == IF res.err # "none" THEN number_of_desired_channels ELSE res.n

set_lut_channels(channels) ==
    LET input_dict == IF channels.given THEN channels.dict ELSE DefaultChannels
        res == assign_channel_indices(input_dict)
    IN  /\ Called("set_lut_channels", res.err, SetLutWrites(res))
        /\ lastReads' = <<>>
        /\ lastChannels' = input_dict
        /\ number_of_desired_channels' = SetLutK(res)
        /\ IF res.err # "none"
           THEN UNCHANGED <<data_array, remaining_counters_array, lutReg,
                            lutWritten, since_reset>>
           ELSE /\ data_array' = FullNaN(res.n, capture_size)
                /\ remaining_counters_array' = ResetRemaining
                /\ since_reset' = <<>>
                /\ lutReg' = res.lut
                /\ lutWritten' = [set |-> TRUE, dict |-> input_dict]
        /\ UNCHANGED <<winVars, lastBurst, lastRet>>

get_lut_channels ==
    /\ Called("get_lut_channels", "none", <<>>)
    /\ lastReads' = <<WbBurstRead(SET_CHANNELS, lut_channels_depth, lutReg)>>
    /\ lastRet' = list_to_dict(lutReg)
    /\ UNCHANGED <<number_of_desired_channels, data_array,
                   remaining_counters_array, lutReg, lutWritten, winVars,
                   lastBurst, lastChannels, since_reset>>

\* set_window_size(window_size), window_size an integer
set_window_size(window_size) ==
    LET lsb == BigAnd(window_size, lsb_mask)
        msb == BigAnd(BigShr32(window_size), lsb_mask)
    IN  /\ Called("set_window_size", "none",
                  <<WbWrite(WINDOW_SIZE_LSB, lsb), WbWrite(WINDOW_SIZE_MSB, msb)>>)
        /\ lastReads' = <<>>
        /\ winLsbReg' = lsb
        /\ winMsbReg' = msb
        /\ UNCHANGED <<number_of_desired_channels, data_array,
                       remaining_counters_array, lutReg, lutWritten,
                       lastBurst, lastChannels, lastRet, since_reset>>

get_window_size ==
    LET lsb == winLsbReg
        msb == winMsbReg
    IN  /\ Called("get_window_size", "none", <<>>)
        /\ lastReads' = <<WbRead(WINDOW_SIZE_LSB, lsb), WbRead(WINDOW_SIZE_MSB, msb)>>
        /\ lastRet' = BigAdd(lsb, BigShl32(msb))
        /\ UNCHANGED <<number_of_desired_channels, data_array,
                       remaining_counters_array, lutReg, lutWritten, winVars,
                       lastBurst, lastChannels, since_reset>>

\* The decode of read_data for K >= 1: the matrix and the pending tail it
\* stores, from the ones it found and the words it read.
Decode(matrix, remaining, burst_read_data, K, cap) ==
    LET words == FilterZeros(burst_read_data)
        concat_data == ExpandBurst(StartConcat(remaining), words)
        added_arrays_len == Len(concat_data) \div K
        added_data_len == added_arrays_len * K
        added_data == SubSeq(concat_data, 1, added_data_len)
        rows == ClampRows(added_arrays_len, cap)
        kept == TruncateAdded(added_data, added_arrays_len, cap, K)
    IN  [data_array |-> SlideAppend(matrix, rows, ReshapeT(kept, rows, K)),
         remaining |-> RemainingAfter(concat_data, added_data_len)]

\* The body of read_data, `fifo` being the words the READ_DATA FIFO hands out
\* to its burst reads, in order.
ReadData(fifo) ==
    LET K == number_of_desired_channels
        io == ReadBursts(fifo, read_length, max_burst_size)
    IN  IF K = 0
        THEN \* len(concat_data) // 0 raises before anything is stored
             /\ Called("read_data", "ZeroDivisionError", <<>>)
             /\ lastReads' = io.reads
             /\ lastBurst' = fifo
             /\ UNCHANGED <<number_of_desired_channels, data_array,
                            remaining_counters_array, lutReg, lutWritten,
                            winVars, lastChannels, lastRet>>
        ELSE LET out == Decode(data_array, remaining_counters_array,
                               io.data, K, capture_size)
             IN  /\ Called("read_data", "none", <<>>)
                 /\ lastReads' = io.reads
                 /\ lastBurst' = fifo
                 /\ remaining_counters_array' = out.remaining
                 /\ data_array' = out.data_array
                 /\ UNCHANGED <<number_of_desired_channels, lutReg,
                                lutWritten, winVars, lastChannels, lastRet>>

read_data(burst) ==
    /\ ReadData(burst)
    /\ UNCHANGED since_reset

\* read_data, the words it read added to the log of the words since the reset.
read_data_logged(burst) ==
    /\ ReadData(burst)
    /\ since_reset' = since_reset \o burst

(***************************************************************************)
(* Specifications                                                          *)
(***************************************************************************)
\* The transport's burst limit of the decoder and LUT runs.
BurstLimit == 2

\* The register word of a counter module.
CntrWord == FromBytesBig(ModuleTag)

\* The transport of the decoder and LUT runs.
DecoderBus(lut_depth) ==
    Bus(CntrWord, ReadLength, NumChannels, lut_depth, BurstLimit)

\* The state Counter.__init__ leaves: one desired channel, the reset done.
Constructed ==
    /\ number_of_channels = NumChannels
    /\ read_length = ReadLengthOf(ReadLength, BurstLimit)
    /\ max_burst_size = BurstLimit
    /\ number_of_desired_channels = 1
    /\ data_array = FullNaN(1, capture_size)
    /\ remaining_counters_array = <<>>
    /\ lutReg = [i \in 1..lut_channels_depth |-> number_of_channels]
    /\ lutWritten = [set |-> FALSE, dict |-> <<>>]
    /\ winLsbReg = BigZero
    /\ winMsbReg = BigZero
    /\ lastOp = "__init__"
    /\ lastErr = "none"
    /\ lastWrites = ResetWrites
    /\ lastReads = InitReads(DecoderBus(lut_channels_depth))
    /\ lastBurst = <<>>
    /\ lastChannels = <<>>
    /\ lastRet = <<>>
    /\ prev_K = 1
    /\ prev_data_array = FullNaN(1, capture_size)
    /\ prev_remaining = <<>>
    /\ since_reset = <<>>
    /\ calls = 0

\* Before Counter(...) is called: no object yet.
Unconstructed ==
    /\ capture_size = 0
    /\ number_of_channels = 0
    /\ lut_channels_depth = 0
    /\ read_length = 0
    /\ max_burst_size = 0
    /\ number_of_desired_channels = 0
    /\ data_array = <<>>
    /\ remaining_counters_array = <<>>
    /\ lutReg = <<>>
    /\ lutWritten = [set |-> FALSE, dict |-> <<>>]
    /\ winLsbReg = BigZero
    /\ winMsbReg = BigZero
    /\ lastOp = "none"
    /\ lastErr = "none"
    /\ lastWrites = <<>>
    /\ lastReads = <<>>
    /\ lastBurst = <<>>
    /\ lastChannels = <<>>
    /\ lastRet = <<>>
    /\ prev_K = 0
    /\ prev_data_array = <<>>
    /\ prev_remaining = <<>>
    /\ since_reset = <<>>
    /\ argChannels = NoneArg
    /\ argWindow = DefaultWindow
    /\ calls = 0

\* A Counter object exists.
IsConstructed == lastOp # "none" /\ ~(lastOp = "__init__" /\ lastErr # "none")

\* The capture_size arguments of the decoder runs.
CaptureSizes == {1, 2, MaxCaptureSize}

\* Decoder runs: any interleaving of the methods on one Counter.
Init ==
    /\ capture_size \in CaptureSizes
    /\ lut_channels_depth = 64
    /\ argChannels = NoneArg
    /\ argWindow = DefaultWindow
    /\ Constructed

Next ==
    \/ \E burst \in Bursts : read_data(burst)
    \/ \E channels \in DecoderChannels : set_lut_channels(channels)
    \/ reset_FPGA_module
    \/ start_measurement

Spec == Init /\ [][Next]_vars

\* LUT builder runs: the builder applied to one assignment drawn at the start,
\* and the LUT read back.
InitLut ==
    /\ capture_size = 1
    /\ lut_channels_depth \in LutDepths
    /\ argChannels \in LutChannels
    /\ argWindow = DefaultWindow
    /\ Constructed

NextLut ==
    \/ set_lut_channels(argChannels)
    \/ get_lut_channels

SpecLut == InitLut /\ [][NextLut]_vars

\* Window runs: one window size drawn at the start, written and read back.
InitWin ==
    /\ capture_size = 1
    /\ lut_channels_depth = 64
    /\ argChannels = NoneArg
    /\ argWindow \in WindowSizes
    /\ Constructed

NextWin ==
    \/ set_window_size(argWindow)
    \/ get_window_size

SpecWin == InitWin /\ [][NextWin]_vars

\* Open runs: the constructor on a transport whose MODULE register holds the
\* counter tag or another word, then every method of the object.
ModuleWords ==
    {CntrWord, 0, FromBytesBig(<<114, 116, 110, 99>>),
     FromBytesBig(<<99, 110, 116, 115>>)}

InitOpen == Unconstructed

NextOpen ==
    \/ \E module \in ModuleWords, size \in CaptureSizes :
          Counter(Bus(module, ReadLength, NumChannels, 64, BurstLimit), size)
    \/ /\ IsConstructed
       /\ \/ \E burst \in SampleBursts : read_data(burst)
          \/ \E channels \in DecoderChannels : set_lut_channels(channels)
          \/ reset_FPGA_module
          \/ start_measurement
          \/ get_lut_channels
          \/ set_window_size(argWindow)
          \/ get_window_size

SpecOpen == InitOpen /\ [][NextOpen]_vars

\* Chunking runs: FIFO depths and burst limits drawn at construction, then
\* reads of bursts whose words differ by position.
MaxFifoDepth == 5
MaxBurstLimit == 3

ChunkBursts(length) ==
    {[i \in 1..length |-> IF i <= k THEN ValidWord(i) ELSE ZeroWord] :
        k \in 0..length} \cup
    {[i \in 1..length |-> IF i = 1 THEN GapWord(2) ELSE ValidWord(i)]}

NextChunk ==
    \/ \E fifo_depth \in 0..MaxFifoDepth, max_burst \in 1..MaxBurstLimit,
          size \in CaptureSizes :
          Counter(Bus(CntrWord, fifo_depth, NumChannels, 64, max_burst), size)
    \/ /\ IsConstructed
       /\ \E burst \in ChunkBursts(read_length) : read_data(burst)

SpecChunk == InitOpen /\ [][NextChunk]_vars

\* Split runs: reads whose words are logged since the last reset.  One burst
\* carries the largest count and the count 0, dummy words around them.
SplitBursts ==
    {Pad(q) : q \in UNION {SeqsOf(DataWords, n) : n \in 0..2}} \cup
    {b \in SampleBursts : Len(b) = ReadLength} \cup
    {Pad(<<ValidWord(2147483647), ZeroWord, ValidWord(0)>>)}

NextSplit ==
    \/ \E burst \in SplitBursts : read_data_logged(burst)
    \/ \E channels \in DecoderChannels : set_lut_channels(channels)
    \/ reset_FPGA_module

SpecSplit == Init /\ [][NextSplit]_vars

(***************************************************************************)
(* Reference definitions used by the properties                            *)
(***************************************************************************)
\* The scalars a burst stands for: nothing for a zero word, n missing-markers
\* for a gap word of value n, the low 31 bits for a valid-tagged word.
RECURSIVE Scalars(_)
Scalars(burst) ==
    IF burst = <<>> THEN <<>>
    ELSE LET w == Head(burst)
             here == IF w.tag = 1 THEN <<w.low>>
                     ELSE [i \in 1..w.low |-> NaN]
         IN  here \o Scalars(Tail(burst))

\* The working sequence of the last read_data call.
Working == prev_remaining \o Scalars(lastBurst)

ReadDone == lastOp = "read_data" /\ lastErr = "none"

Shape(matrix, K, cap) ==
    /\ Len(matrix) = K
    /\ \A c \in 1..K : Len(matrix[c]) = cap

Min(a, b) == IF a < b THEN a ELSE b

\* The last n elements of seq (n <= Len(seq)).
Suffix(seq, n) == [i \in 1..n |-> seq[Len(seq) - n + i]]

\* The scalars of the last m columns of the matrix, column by column, channel
\* index varying fastest.
Interleaved(matrix, K, cap, m) ==
    [i \in 1..(m * K) |->
        matrix[((i - 1) % K) + 1][cap - m + ((i - 1) \div K) + 1]]

(***************************************************************************)
(* C1: channel demultiplexing.  After a read_data call that completed      *)
(* r <= capture_size rows of the working sequence s, channel c of the      *)
(* j-th new column is s[j*K + c] (0-based), the new columns are the last r *)
(* ones, and the columns before them are the previous matrix's columns     *)
(* r..capture_size-1.                                                      *)
(***************************************************************************)
C1_Demux ==
    ReadDone =>
        LET K == number_of_desired_channels
            s == Working
            r == Len(s) \div K
        IN  r <= capture_size =>
              /\ Shape(data_array, K, capture_size)
              /\ \A c \in 1..K : \A j \in 1..r :
                    data_array[c][capture_size - r + j] = s[(j - 1) * K + c]
              /\ \A c \in 1..K : \A i \in 1..(capture_size - r) :
                    data_array[c][i] = prev_data_array[c][r + i]

\* K = 2, valid words 1,2,3,4: the last two columns are channel0 [1,3],
\* channel1 [2,4].
C1_Witness ==
    /\ ReadDone
    /\ number_of_desired_channels = 2
    /\ capture_size = 4
    /\ prev_remaining = <<>>
    /\ lastBurst = <<ValidWord(1), ValidWord(2), ValidWord(3), ValidWord(4)>>
    /\ data_array = << <<NaN, NaN, 1, 3>>, <<NaN, NaN, 2, 4>> >>

(***************************************************************************)
(* C2: gap expansion.  Every gap word of value n stands for n scalars of   *)
(* the flattened channel-interleaved stream and every valid-tagged word    *)
(* for one scalar, its low 31 bits: after read_data the columns the call   *)
(* added, read channel-fastest, followed by the pending tail, are the end  *)
(* of the working sequence, and the pending tail holds len(s) mod K of     *)
(* them.  With K = 1 and a clean state the burst [3, 0x80000005] completes *)
(* 4 rows: the last 4 columns are [missing, missing, missing, 5].          *)
(***************************************************************************)
C2_GapExpansion ==
    ReadDone =>
        LET K == number_of_desired_channels
            s == Working
            m == Min(Len(s) \div K, capture_size)
            t == Len(s) % K
        IN  /\ Shape(data_array, K, capture_size)
            /\ Len(remaining_counters_array) = t
            /\ Interleaved(data_array, K, capture_size, m)
                   \o remaining_counters_array = Suffix(s, m * K + t)
            /\ ( /\ K = 1
                 /\ prev_remaining = <<>>
                 /\ FilterZeros(lastBurst) = <<GapWord(3), ValidWord(5)>>
                 /\ capture_size >= 4 )
               => Suffix(data_array[1], 4) = <<NaN, NaN, NaN, 5>>

C2_Witness ==
    /\ ReadDone
    /\ number_of_desired_channels = 1
    /\ capture_size = 4
    /\ prev_data_array = FullNaN(1, 4)
    /\ prev_remaining = <<>>
    /\ lastBurst = <<ZeroWord, GapWord(3), ZeroWord, ValidWord(5)>>
    /\ data_array = << <<NaN, NaN, NaN, 5>> >>
    /\ remaining_counters_array = <<>>

(***************************************************************************)
(* C3: partial-row carry-over (as amended).  With K = 3 and an empty       *)
(* pending tail, a call carrying 4 valid-tagged words completes one row    *)
(* and leaves exactly the 4th scalar pending; a call carrying 2 more       *)
(* valid-tagged words then completes one more row, the carried scalar      *)
(* first and the 2 new ones after it, and leaves the pending tail empty.   *)
(* Each of the two calls completes one row: 2 full rows across both.       *)
(***************************************************************************)
AllValid(words) == \A i \in 1..Len(words) : words[i].tag = 1
Column(matrix, j) == [c \in 1..Len(matrix) |-> matrix[c][j]]
IsReal(col) == \A c \in 1..Len(col) : col[c] # NaN
\* The columns of the matrix that hold a row of real counts.
RealColumns(matrix, cap) == {j \in 1..cap : IsReal(Column(matrix, j))}

\* The last call is read_data with K = 3 and n valid-tagged words, and
\* nothing else but dummy words.
CarryCall(n) ==
    /\ ReadDone
    /\ number_of_desired_channels = 3
    /\ Len(FilterZeros(lastBurst)) = n
    /\ AllValid(FilterZeros(lastBurst))

\* The first call of the scenario, and what it leaves.
C3_First ==
    (CarryCall(4) /\ prev_remaining = <<>>) =>
        LET w == FilterZeros(lastBurst) IN
        /\ Shape(data_array, 3, capture_size)
        /\ remaining_counters_array = <<w[4].low>>
        /\ Column(data_array, capture_size) = <<w[1].low, w[2].low, w[3].low>>

\* The second call of the scenario, and what it leaves.
C3_Second ==
    (CarryCall(2) /\ Len(prev_remaining) = 1) =>
        LET w == FilterZeros(lastBurst) IN
        /\ Shape(data_array, 3, capture_size)
        /\ remaining_counters_array = <<>>
        /\ Column(data_array, capture_size) =
               <<prev_remaining[1], w[1].low, w[2].low>>
        /\ \A j \in 1..(capture_size - 1) :
               Column(data_array, j) = Column(prev_data_array, j + 1)

\* The second call, made right after the first one on a freshly configured
\* K = 3 decoder: set_lut_channels, read_data (4 valid words), read_data
\* (2 valid words).
BothCalls ==
    /\ CarryCall(2)
    /\ calls = 3
    /\ capture_size >= 2
    /\ Len(prev_remaining) = 1
    /\ prev_remaining[1] # NaN
    /\ RealColumns(prev_data_array, capture_size) = {capture_size}

C3_CarryOver ==
    /\ C3_First
    /\ C3_Second
    /\ BothCalls =>
         RealColumns(data_array, capture_size) = {capture_size - 1, capture_size}

\* The claim as stated: 1 full row in total across both calls.
C3_Original ==
    /\ C3_First
    /\ C3_Second
    /\ BothCalls => Cardinality(RealColumns(data_array, capture_size)) = 1

C3_Witness ==
    /\ BothCalls
    /\ capture_size = 2
    /\ prev_remaining = <<4>>
    /\ lastBurst = <<ValidWord(0), ValidWord(6), ZeroWord, ZeroWord>>
    /\ data_array = << <<1, 4>>, <<2, 0>>, <<3, 6>> >>
    /\ remaining_counters_array = <<>>

(***************************************************************************)
(* C4: overflow truncation.  When one read_data call completes r >         *)
(* capture_size rows, no error is raised whatever the gap values, the      *)
(* matrix is exactly the last capture_size of those r rows (nothing of the *)
(* previous matrix and none of the older rows remains) and the pending     *)
(* tail is the last len(s) mod K scalars of the working sequence.          *)
(***************************************************************************)
C4_Overflow ==
    (lastOp = "read_data" /\ prev_K >= 1) =>
        LET K == prev_K
            s == Working
            r == Len(s) \div K
        IN  r > capture_size =>
              /\ lastErr = "none"
              /\ Shape(data_array, K, capture_size)
              /\ \A c \in 1..K : \A j \in 1..capture_size :
                    data_array[c][j] = s[(r - capture_size + j - 1) * K + c]
              /\ remaining_counters_array = Suffix(s, Len(s) % K)

\* capture_size = 2, K = 1, 5 completed rows (NaN, NaN, NaN, 1, 2): the last
\* two of the five remain.
C4_Witness ==
    /\ ReadDone
    /\ capture_size = 2
    /\ number_of_desired_channels = 1
    /\ Len(Working) = 5
    /\ lastBurst = <<GapWord(3), ZeroWord, ValidWord(1), ValidWord(2)>>
    /\ data_array = << <<1, 2>> >>

(***************************************************************************)
(* C5: idempotent empty decode.  A read_data call whose burst holds only   *)
(* zero words leaves the rolling matrix and the pending tail as they were. *)
(***************************************************************************)
AllZero(burst) == \A i \in 1..Len(burst) : burst[i] = ZeroWord

C5_EmptyDecode ==
    (lastOp = "read_data" /\ AllZero(lastBurst)) =>
        /\ data_array = prev_data_array
        /\ remaining_counters_array = prev_remaining

\* An all-zero burst decoded on a matrix holding counts, with a scalar pending.
C5_Witness ==
    /\ ReadDone
    /\ AllZero(lastBurst)
    /\ Len(lastBurst) = ReadLength
    /\ prev_remaining # <<>>
    /\ \E c \in 1..Len(prev_data_array) : \E j \in 1..capture_size :
           prev_data_array[c][j] # NaN
    /\ data_array = prev_data_array
    /\ remaining_counters_array = prev_remaining

(***************************************************************************)
(* Reference definitions for the LUT properties                            *)
(***************************************************************************)
SetLutCalled == lastOp = "set_lut_channels"
Rejected == SetLutCalled /\ lastErr # "none"
Accepted == SetLutCalled /\ lastErr = "none"

KeysOf(d) == {d[i].key : i \in 1..Len(d)}
\* The places of the physical values of an assignment: item i, position a.
Places(d) == UNION {{<<i, a>> : a \in 1..Len(d[i].vals)} : i \in 1..Len(d)}
ValueAt(d, p) == d[p[1]].vals[p[2]]
ValuesOfKey(d, k) ==
    {ValueAt(d, p) : p \in {q \in Places(d) : d[q[1]].key = k}}
SlotOf(v) == v % 64                    \* value & 0x3F
Collides(d) ==
    \E p \in Places(d) : \E q \in Places(d) :
        p # q /\ SlotOf(ValueAt(d, p)) = SlotOf(ValueAt(d, q))
ItemOfKey(items, k) == CHOOSE n \in 1..Len(items) : items[n].key = k
Range(seq) == {seq[i] : i \in 1..Len(seq)}

\* get_lut_channels has just returned the decoding of the LUT that the last
\* accepted set_lut_channels call wrote.
Decoded == lastOp = "get_lut_channels" /\ lutWritten.set

(***************************************************************************)
(* C6: LUT round-trip (as amended).  Decoding the LUT written for an       *)
(* accepted assignment returns, sorted by key, exactly the keys that have  *)
(* at least one value, each with the set of masked slot indices            *)
(* value & 0x3F of its values; this is the input map up to reordering when *)
(* every value lies in [0, 64) and no value list is empty.                 *)
(***************************************************************************)
C6_RoundTrip ==
    Decoded =>
        LET d == lutWritten.dict
            nonEmpty == {k \in KeysOf(d) : ValuesOfKey(d, k) # {}}
        IN  /\ KeysOf(lastRet) = nonEmpty
            /\ \A n \in 1..(Len(lastRet) - 1) : lastRet[n].key < lastRet[n + 1].key
            /\ \A n \in 1..Len(lastRet) :
                  Range(lastRet[n].vals) =
                      {SlotOf(v) : v \in ValuesOfKey(d, lastRet[n].key)}
            /\ ( /\ \A p \in Places(d) : ValueAt(d, p) \in 0..63
                 /\ nonEmpty = KeysOf(d) )
               => /\ KeysOf(lastRet) = KeysOf(d)
                  /\ \A k \in KeysOf(d) :
                        Range(lastRet[ItemOfKey(lastRet, k)].vals) = ValuesOfKey(d, k)

\* The claim as stated: same key set, and for each key the same set of slot
\* indices as the input map.
C6_Original ==
    Decoded =>
        LET d == lutWritten.dict
        IN  /\ KeysOf(lastRet) = KeysOf(d)
            /\ \A n \in 1..Len(lastRet) :
                  Range(lastRet[n].vals) = ValuesOfKey(d, lastRet[n].key)

\* {0: 1, 1: [2, 3], 2: [-4, 4]} decodes to {0: [1], 1: [2, 3], 2: [4, 60]}.
C6_Witness ==
    /\ Decoded
    /\ lut_channels_depth = 64
    /\ lutWritten.dict =
          <<IntItem(0, 1), ListItem(1, <<2, 3>>), ListItem(2, <<-4, 4>>)>>
    /\ lastRet =
          <<ListItem(0, <<1>>), ListItem(1, <<2, 3>>), ListItem(2, <<4, 60>>)>>

(***************************************************************************)
(* C7: collision detection with masking.  set_lut_channels fails whenever  *)
(* two assigned physical values, under one key or under two, have the same *)
(* value & 0x3F: 70 together with 6, or two keys both naming slot 5.       *)
(***************************************************************************)
C7_Collision ==
    (SetLutCalled /\ Collides(lastChannels)) => lastErr # "none"

C7_Witness ==
    /\ Rejected
    /\ lut_channels_depth = 64
    /\ lastChannels = <<IntItem(0, 70), IntItem(1, 6)>>
    /\ lastErr = "AssertionError"

(***************************************************************************)
(* C8: physical-value validation (as amended).  Physical values are not    *)
(* checked against physicalChannelCount.  Building the LUT fails for every *)
(* assignment in which some value's masked slot index value & 0x3F is not  *)
(* below lutDepth; an assignment with keys in [0, len) and below           *)
(* physicalChannelCount, values of a supported type and pairwise distinct  *)
(* masked slots, all below lutDepth, is accepted, also when its values lie *)
(* outside [0, physicalChannelCount) or are negative.                      *)
(***************************************************************************)
SlotsFit(d) == \A p \in Places(d) : SlotOf(ValueAt(d, p)) < lut_channels_depth
WellFormed(d) ==
    /\ \A i \in 1..Len(d) :
          /\ 0 <= d[i].key
          /\ d[i].key < Len(d)
          /\ d[i].key < number_of_channels
          /\ d[i].type \in {"int", "list"}
    /\ ~Collides(d)
OutOfRange(d) ==
    \E p \in Places(d) : ValueAt(d, p) < 0 \/ ValueAt(d, p) >= number_of_channels

C8_SlotRange ==
    SetLutCalled =>
        /\ ~SlotsFit(lastChannels) => lastErr # "none"
        /\ (WellFormed(lastChannels) /\ SlotsFit(lastChannels)) => lastErr = "none"

\* The claim as stated: every assignment with a value outside
\* [0, physicalChannelCount) is rejected.
C8_Original ==
    (SetLutCalled /\ OutOfRange(lastChannels)) => lastErr # "none"

\* {0: -5} is accepted with a LUT of 64 slots: slot 59 routes to channel 0.
C8_Witness ==
    /\ Accepted
    /\ lut_channels_depth = 64
    /\ lastChannels = <<IntItem(0, -5)>>
    /\ OutOfRange(lastChannels)
    /\ lutReg[60] = 0

(***************************************************************************)
(* C9: validate-before-mutate.  A rejected set_lut_channels call issues no *)
(* bus write and leaves number_of_desired_channels, the rolling matrix and *)
(* the pending tail as they were.                                          *)
(***************************************************************************)
C9_ValidateFirst ==
    Rejected =>
        /\ lastWrites = <<>>
        /\ number_of_desired_channels = prev_K
        /\ data_array = prev_data_array
        /\ remaining_counters_array = prev_remaining

\* A colliding assignment rejected on a decoder that holds counts and a
\* pending scalar.
C9_Witness ==
    /\ Rejected
    /\ lastChannels = <<IntItem(0, 5), IntItem(1, 5)>>
    /\ prev_K = 3
    /\ prev_remaining # <<>>
    /\ \E c \in 1..3 : \E j \in 1..capture_size : data_array[c][j] # NaN
    /\ remaining_counters_array = prev_remaining

(***************************************************************************)
(* C10: configure sequencing.  A successful set_lut_channels writes, in    *)
(* this order, 1 to RESET_FPGA_MODULE, K = len(assignment) to              *)
(* NUM_DESIRED_CHANNEL and the flat LUT in one burst to SET_CHANNELS, and  *)
(* returns with an all-missing K x capture_size matrix and an empty        *)
(* pending tail.                                                           *)
(***************************************************************************)
C10_Sequencing ==
    Accepted =>
        LET K == Len(lastChannels) IN
        /\ Len(lastWrites) = 3
        /\ lastWrites[1] = [op |-> "write", reg |-> RESET_FPGA_MODULE, data |-> <<1>>]
        /\ lastWrites[2] = [op |-> "write", reg |-> NUM_DESIRED_CHANNEL, data |-> <<K>>]
        /\ lastWrites[3].op = "burst_write"
        /\ lastWrites[3].reg = SET_CHANNELS
        /\ Len(lastWrites[3].data) = lut_channels_depth
        /\ lastWrites[3].data = lutReg
        /\ number_of_desired_channels = K
        /\ Shape(data_array, K, capture_size)
        /\ \A c \in 1..K : \A j \in 1..capture_size : data_array[c][j] = NaN
        /\ remaining_counters_array = <<>>

\* A K = 3 decoder holding counts and a pending scalar reconfigured to K = 2.
C10_Witness ==
    /\ Accepted
    /\ prev_K = 3
    /\ prev_remaining # <<>>
    /\ \E c \in 1..3 : \E j \in 1..capture_size : prev_data_array[c][j] # NaN
    /\ lastChannels = <<IntItem(0, 1), ListItem(1, <<2, 3>>)>>
    /\ number_of_desired_channels = 2
    /\ data_array = FullNaN(2, capture_size)
(***************************************************************************)
(* C11: reset clears the decoder state.  From any reachable state          *)
(* reset_FPGA_module writes 1 to RESET_FPGA_MODULE and nothing else, keeps *)
(* K, and leaves the matrix all-missing with K rows of capture_size        *)
(* columns and the pending tail empty; the read_data call that follows a   *)
(* reset decodes the scalars of its own burst only: the columns it adds    *)
(* and the tail it leaves are the end of that burst's scalars, and every   *)
(* older column is missing.                                                *)
(***************************************************************************)
AllMissing(matrix) ==
    \A c \in 1..Len(matrix) : \A j \in 1..Len(matrix[c]) : matrix[c][j] = NaN

C11_ResetClears ==
    [][ /\ lastOp' = "reset_FPGA_module" =>
              /\ lastWrites' = <<[op |-> "write", reg |-> RESET_FPGA_MODULE,
                                  data |-> <<1>>]>>
              /\ number_of_desired_channels' = number_of_desired_channels
              /\ Shape(data_array', number_of_desired_channels, capture_size)
              /\ AllMissing(data_array')
              /\ remaining_counters_array' = <<>>
        /\ (lastOp = "reset_FPGA_module" /\ ReadDone') =>
              LET K == number_of_desired_channels
                  s == Scalars(lastBurst')
                  m == Min(Len(s) \div K, capture_size)
                  t == Len(s) % K
              IN  /\ Interleaved(data_array', K, capture_size, m)
                         \o remaining_counters_array' = Suffix(s, m * K + t)
                  /\ \A c \in 1..K : \A j \in 1..(capture_size - m) :
                         data_array'[c][j] = NaN
      ]_vars

\* A reset of a decoder that holds a real row and carries a scalar.
C11_Witness ==
    /\ lastOp = "reset_FPGA_module"
    /\ prev_K = 2
    /\ prev_remaining # <<>>
    /\ prev_remaining[1] # NaN
    /\ RealColumns(prev_data_array, capture_size) # {}
    /\ AllMissing(data_array)
    /\ remaining_counters_array = <<>>

(***************************************************************************)
(* C12: window round-trip.  For every window size w with 0 <= w < 2^64,    *)
(* set_window_size writes w mod 2^32 to WINDOW_SIZE_LSB and                *)
(* floor(w / 2^32) to WINDOW_SIZE_MSB, both in [0, 2^32), and a            *)
(* get_window_size that reads them back returns exactly w; the default     *)
(* 3000000000 is written as lsb 3000000000, msb 0 and read back unchanged. *)
(***************************************************************************)
\* w < 2^64, for w of five 16-bit limbs
Below64(w) == w[5] = 0
\* w mod 2^32 and floor(w / 2^32), for w < 2^64
Low32(w) == <<w[1], w[2], 0, 0, 0>>
High32(w) == <<w[3], w[4], 0, 0, 0>>
\* x in [0, 2^32)
IsWord32(x) ==
    /\ \A i \in DOMAIN x : x[i] \in 0..65535
    /\ \A i \in DOMAIN x : i > 2 => x[i] = 0

C12_WindowRoundTrip ==
    [][ Below64(argWindow) =>
          /\ lastOp' = "set_window_size" =>
                /\ lastWrites' =
                     <<[op |-> "write", reg |-> WINDOW_SIZE_LSB,
                        data |-> <<Low32(argWindow)>>],
                       [op |-> "write", reg |-> WINDOW_SIZE_MSB,
                        data |-> <<High32(argWindow)>>]>>
                /\ IsWord32(lastWrites'[1].data[1])
                /\ IsWord32(lastWrites'[2].data[1])
                /\ argWindow = <<24064, 45776, 0, 0, 0>> =>
                      /\ lastWrites'[1].data[1] = <<24064, 45776, 0, 0, 0>>
                      /\ lastWrites'[2].data[1] = <<0, 0, 0, 0, 0>>
          /\ (lastOp = "set_window_size" /\ lastOp' = "get_window_size") =>
                /\ lastReads'[1].reg = WINDOW_SIZE_LSB
                /\ lastReads'[1].data = <<Low32(argWindow)>>
                /\ lastReads'[2].reg = WINDOW_SIZE_MSB
                /\ lastReads'[2].data = <<High32(argWindow)>>
                /\ lastRet' = argWindow
      ]_vars

\* A window size with bits on both sides of bit 32, written and read back.
C12_Witness ==
    /\ lastOp = "get_window_size"
    /\ argWindow = <<24064, 45776, 1, 65535, 0>>
    /\ winLsbReg = <<24064, 45776, 0, 0, 0>>
    /\ winMsbReg = <<1, 65535, 0, 0, 0>>
    /\ lastRet = <<24064, 45776, 1, 65535, 0>>

(***************************************************************************)
(* C13: burst chunking.  Every read_data call issues exactly               *)
(* ceil(read_length / MAX_BURST_SIZE) burst reads of READ_DATA, the i-th   *)
(* asking for min(MAX_BURST_SIZE, words still to read) words, none asking  *)
(* for more than MAX_BURST_SIZE, the sizes adding up to read_length; the   *)
(* words decoded are the words the burst reads returned, concatenated in   *)
(* issue order, so the matrix and the tail are the decode of that          *)
(* concatenation.                                                          *)
(***************************************************************************)
RECURSIVE SumCounts(_)
SumCounts(reads) ==
    IF reads = <<>> THEN 0 ELSE Head(reads).count + SumCounts(Tail(reads))

RECURSIVE ConcatData(_)
ConcatData(reads) ==
    IF reads = <<>> THEN <<>> ELSE Head(reads).data \o ConcatData(Tail(reads))

C13_Chunking ==
    lastOp = "read_data" =>
        /\ Len(lastReads) = (read_length + max_burst_size - 1) \div max_burst_size
        /\ \A i \in 1..Len(lastReads) :
              /\ lastReads[i].op = "burst_read"
              /\ lastReads[i].reg = READ_DATA
              /\ lastReads[i].count =
                     Min(max_burst_size,
                         read_length - SumCounts(SubSeq(lastReads, 1, i - 1)))
              /\ lastReads[i].count <= max_burst_size
              /\ Len(lastReads[i].data) = lastReads[i].count
        /\ SumCounts(lastReads) = read_length
        /\ ReadDone =>
              LET K == number_of_desired_channels
                  s == prev_remaining \o Scalars(ConcatData(lastReads))
                  m == Min(Len(s) \div K, capture_size)
                  t == Len(s) % K
              IN  /\ Len(remaining_counters_array) = t
                  /\ Interleaved(data_array, K, capture_size, m)
                         \o remaining_counters_array = Suffix(s, m * K + t)
                  /\ \A c \in 1..K : \A j \in 1..(capture_size - m) :
                         data_array[c][j] = prev_data_array[c][j + m]

\* A FIFO of depth 5 behind a burst limit of 2: read_length 4, two bursts of
\* two words, decoded in the order they were read.
C13_Witness ==
    /\ ReadDone
    /\ read_length = 4
    /\ max_burst_size = 2
    /\ capture_size = 4
    /\ Len(lastReads) = 2
    /\ lastReads[1].data = <<ValidWord(1), ValidWord(2)>>
    /\ lastReads[2].data = <<ValidWord(3), ValidWord(4)>>
    /\ data_array = << <<1, 2, 3, 4>> >>

(***************************************************************************)
(* C14: module identity check at open.  Constructing a Counter reads the   *)
(* MODULE register first.  If its four bytes, most significant first, are  *)
(* not 'cntr' (the word 1668183154), construction fails, no other register *)
(* is read and no register is written, the reset strobe included.  If they *)
(* are, construction succeeds, its last bus access is the reset strobe,    *)
(* and it leaves K = 1, an all-missing 1 x capture_size matrix and an      *)
(* empty pending tail.                                                     *)
(***************************************************************************)
C14_IdentityCheck ==
    lastOp = "__init__" =>
        /\ Len(lastReads) >= 1
        /\ lastReads[1].op = "read"
        /\ lastReads[1].reg = REG_MODULE
        /\ lastReads[1].data[1] # 1668183154 =>
              /\ lastErr # "none"
              /\ Len(lastReads) = 1
              /\ lastWrites = <<>>
        /\ lastReads[1].data[1] = 1668183154 =>
              /\ lastErr = "none"
              /\ lastWrites # <<>>
              /\ lastWrites[Len(lastWrites)] =
                     [op |-> "write", reg |-> RESET_FPGA_MODULE, data |-> <<1>>]
              /\ number_of_desired_channels = 1
              /\ Shape(data_array, 1, capture_size)
              /\ capture_size >= 1
              /\ AllMissing(data_array)
              /\ remaining_counters_array = <<>>

\* A module whose tag reads 'cnts': the constructor stops after one read.
C14_Witness ==
    /\ lastOp = "__init__"
    /\ lastErr = "AssertionError"
    /\ lastReads[1].data[1] = 1668183155
    /\ Len(lastReads) = 1
    /\ lastWrites = <<>>

(***************************************************************************)
(* C15: flat LUT shape.  For every accepted assignment the list written to *)
(* the LUT has exactly lutDepth slots; a slot whose index is the masked    *)
(* value (value & 0x3F) of an assigned value holds the key of that value,  *)
(* a number in [0, K); every other slot holds the sentinel                 *)
(* physicalChannelCount; and no key equals the sentinel.                   *)
(***************************************************************************)
C15_LutShape ==
    Accepted =>
        LET d == lastChannels
            lut == lastWrites[3].data
        IN  /\ lastWrites[3].reg = SET_CHANNELS
            /\ lutReg = lut
            /\ Len(lut) = lut_channels_depth
            /\ \A p \in Places(d) :
                  /\ lut[SlotOf(ValueAt(d, p)) + 1] = d[p[1]].key
                  /\ d[p[1]].key \in 0..(Len(d) - 1)
            /\ \A idx \in 0..(lut_channels_depth - 1) :
                  (\A p \in Places(d) : SlotOf(ValueAt(d, p)) # idx)
                      => lut[idx + 1] = number_of_channels
            /\ \A i \in 1..Len(d) : d[i].key # number_of_channels

\* {1: [6, -5], 0: 5} on a LUT of 64 slots: slots 6 and 59 hold key 1, slot 5
\* holds key 0, slot 0 holds the sentinel.
C15_Witness ==
    /\ Accepted
    /\ lut_channels_depth = 64
    /\ lastChannels = <<ListItem(1, <<6, -5>>), IntItem(0, 5)>>
    /\ lutReg[7] = 1
    /\ lutReg[60] = 1
    /\ lutReg[6] = 0
    /\ lutReg[1] = number_of_channels

(***************************************************************************)
(* C16: arming has no decoder-state side effect.  start_measurement writes *)
(* 1 to CONFIG and nothing else and leaves the matrix, the pending tail    *)
(* and number_of_desired_channels as they were.  No call other than a      *)
(* reset (reset_FPGA_module, an accepted set_lut_channels, construction)   *)
(* loses a stored column otherwise than by read_data shifting it out:      *)
(* after any other call every column of the previous matrix beyond the     *)
(* number of rows the call added is still there, moved left by that        *)
(* number.                                                                 *)
(***************************************************************************)
\* The rows the last call shifted into the matrix.
RowsShifted ==
    IF ReadDone
    THEN Min(Len(Working) \div number_of_desired_channels, capture_size)
    ELSE 0

C16_ArmNoSideEffect ==
    /\ lastOp = "start_measurement" =>
          /\ lastWrites = <<[op |-> "write", reg |-> CONFIG, data |-> <<1>>]>>
          /\ data_array = prev_data_array
          /\ remaining_counters_array = prev_remaining
          /\ number_of_desired_channels = prev_K
    /\ (lastOp \notin {"none", "__init__", "reset_FPGA_module"} /\ ~Accepted) =>
          /\ number_of_desired_channels = prev_K
          /\ Shape(data_array, prev_K, capture_size)
          /\ \A j \in (RowsShifted + 1)..capture_size :
                Column(data_array, j - RowsShifted) = Column(prev_data_array, j)

\* The measurement armed on a decoder that holds a real row and carries a
\* scalar.
C16_Witness ==
    /\ lastOp = "start_measurement"
    /\ number_of_desired_channels = 3
    /\ capture_size = 2
    /\ prev_data_array = << <<NaN, 1>>, <<NaN, 2>>, <<NaN, 3>> >>
    /\ data_array = prev_data_array
    /\ prev_remaining = <<4>>
    /\ remaining_counters_array = <<4>>

(***************************************************************************)
(* C17: decoder state invariant.  After construction and any sequence of   *)
(* accepted or rejected set_lut_channels, reset_FPGA_module,               *)
(* start_measurement and read_data calls the matrix has exactly            *)
(* number_of_desired_channels rows of capture_size columns, and after      *)
(* every read_data call the pending tail has length                        *)
(* len(workingSequence) mod K, which is strictly less than K.              *)
(* The empty assignment {} is accepted with K = 0; the next read_data      *)
(* divides by K and raises, and the tail (of length 0) is not shorter      *)
(* than K.                                                                 *)
(***************************************************************************)
C17_StateInvariant ==
    /\ Shape(data_array, number_of_desired_channels, capture_size)
    /\ lastOp = "read_data" =>
          /\ number_of_desired_channels # 0
          /\ lastErr = "none"
          /\ Len(remaining_counters_array) =
                 Len(Working) % number_of_desired_channels
          /\ Len(remaining_counters_array) < number_of_desired_channels

(***************************************************************************)
(* C18: split invariance.  However the words read since the last reset     *)
(* were split over read_data calls, the matrix and the pending tail are    *)
(* the ones a single decode of all those words, concatenated, leaves on    *)
(* the reset state, overflowing calls included.  Equivalently the matrix   *)
(* holds the last capture_size rows of capture_size all-missing rows       *)
(* followed by every complete row of K scalars of the expanded stream      *)
(* since the reset, and the pending tail holds the scalars after the last  *)
(* complete row.                                                           *)
(***************************************************************************)
C18_SplitInvariance ==
    number_of_desired_channels >= 1 =>
        LET K == number_of_desired_channels
            once == Decode(FullNaN(K, capture_size), <<>>, since_reset, K,
                           capture_size)
            s == Scalars(since_reset)
            n == Len(s) \div K
            history == [i \in 1..(capture_size * K) |-> NaN] \o SubSeq(s, 1, n * K)
        IN  /\ data_array = once.data_array
            /\ remaining_counters_array = once.remaining
            /\ Shape(data_array, K, capture_size)
            /\ Interleaved(data_array, K, capture_size, capture_size) =
                   Suffix(history, capture_size * K)
            /\ remaining_counters_array = SubSeq(s, n * K + 1, Len(s))

\* K = 3, capture_size 2: the words 1,2,3,4 in one call and a gap of 3 and
\* the word 5 in the next give the rows (1,2,3), (4,-,-) and the tail (-,5).
C18_Witness ==
    /\ ReadDone
    /\ number_of_desired_channels = 3
    /\ capture_size = 2
    /\ since_reset = <<ValidWord(1), ValidWord(2), ValidWord(3), ValidWord(4),
                       GapWord(3), ValidWord(5), ZeroWord, ZeroWord>>
    /\ prev_remaining = <<4>>
    /\ data_array = << <<1, 4>>, <<2, NaN>>, <<3, NaN>> >>
    /\ remaining_counters_array = <<NaN, 5>>

(***************************************************************************)
(* C19: zero filtering is on the whole 32-bit word.  read_data discards    *)
(* exactly the words equal to 0 and keeps the others in their order: the   *)
(* scalars it stores are the end of the carried scalars followed by the    *)
(* expansion of the non-zero words.  The word 0x80000000 (valid tag, count *)
(* 0) is kept and contributes one real scalar 0 that takes a channel slot. *)
(* Every real scalar of the matrix and of the pending tail lies in         *)
(* [0, 2^31).                                                              *)
(***************************************************************************)
\* The words other than the 32-bit word 0, in order.
NonZeroWords(burst) == SelectSeq(burst, LAMBDA w : w # [tag |-> 0, low |-> 0])

\* The scalars of words none of which is 0: one per valid-tagged word, its
\* count; as many missing-markers as its value per gap word.
RECURSIVE Expansion(_)
Expansion(words) ==
    IF words = <<>> THEN <<>>
    ELSE (IF Head(words).tag = 1 THEN <<Head(words).low>>
          ELSE [i \in 1..Head(words).low |-> NaN]) \o Expansion(Tail(words))

\* Positions of the working sequence that hold the scalar of a word
\* 0x80000000 of the burst.
ZeroCountPlaces(carried, burst) ==
    {Len(carried) + Len(Expansion(NonZeroWords(SubSeq(burst, 1, i - 1)))) + 1 :
        i \in {n \in 1..Len(burst) : burst[n] = [tag |-> 1, low |-> 0]}}

C19_ZeroFiltering ==
    /\ \A c \in 1..Len(data_array) : \A j \in 1..Len(data_array[c]) :
          data_array[c][j] = NaN \/ data_array[c][j] \in 0..2147483647
    /\ \A i \in 1..Len(remaining_counters_array) :
          remaining_counters_array[i] = NaN
              \/ remaining_counters_array[i] \in 0..2147483647
    /\ ReadDone =>
          LET K == number_of_desired_channels
              s == prev_remaining \o Expansion(NonZeroWords(lastBurst))
              m == Min(Len(s) \div K, capture_size)
              t == Len(s) % K
              stored == Interleaved(data_array, K, capture_size, m)
                            \o remaining_counters_array
          IN  /\ Len(stored) = m * K + t
              /\ stored = Suffix(s, m * K + t)
              /\ \A w \in 1..Len(NonZeroWords(lastBurst)) :
                    Len(Expansion(<<NonZeroWords(lastBurst)[w]>>)) >= 1
              /\ \A p \in ZeroCountPlaces(prev_remaining, lastBurst) :
                    p > Len(s) - Len(stored) => stored[p - (Len(s) - Len(stored))] = 0

\* K = 2: the words 0x80000000 + (2^31 - 1), 0, 0x80000000, 0 give one row:
\* channel 0 counts 2^31 - 1, channel 1 counts 0.
C19_Witness ==
    /\ ReadDone
    /\ number_of_desired_channels = 2
    /\ capture_size = 2
    /\ prev_remaining = <<>>
    /\ lastBurst = <<ValidWord(2147483647), ZeroWord, ValidWord(0), ZeroWord>>
    /\ data_array = << <<NaN, 2147483647>>, <<NaN, 0>> >>
    /\ remaining_counters_array = <<>>

(***************************************************************************)
(* C20: key validation.  _assign_channel_indices rejects every assignment  *)
(* with a key outside [0, len(assignment)), so the keys of an accepted     *)
(* assignment are exactly 0..K-1; it rejects every assignment with more    *)
(* keys than physicalChannelCount, so the K stored and written to          *)
(* NUM_DESIRED_CHANNEL by an accepted call is at most                      *)
(* physicalChannelCount.                                                   *)
(***************************************************************************)
C20_KeyValidation ==
    SetLutCalled =>
        LET d == lastChannels IN
        /\ (\E i \in 1..Len(d) : d[i].key < 0 \/ d[i].key >= Len(d)) => Rejected
        /\ Len(d) > number_of_channels => Rejected
        /\ Accepted =>
              /\ KeysOf(d) = 0..(Len(d) - 1)
              /\ number_of_desired_channels = Len(d)
              /\ number_of_desired_channels <= number_of_channels
              /\ lastWrites[2] = [op |-> "write", reg |-> NUM_DESIRED_CHANNEL,
                                  data |-> <<Len(d)>>]

\* Four keys 0..3 on a module of three physical channels: rejected at key 3.
C20_Witness ==
    /\ Rejected
    /\ lut_channels_depth = 64
    /\ Len(lastChannels) = 4
    /\ KeysOf(lastChannels) = 0..3
    /\ number_of_channels = 3
    /\ lastErr = "AssertionError"
    /\ lastWrites = <<>>

====
